---- MODULE Spec2Model ----
(***************************************************************************)
(* Campus Connect client screens: the root route guard (RootLayout), the   *)
(* e-mail verification screen (VerifyEmailScreen), the settings screen     *)
(* (SettingsScreen) and the sign-in screen (SignIn).                       *)
(*                                                                         *)
(* JavaScript values are modelled by strings: "undefined", "null", "true", *)
(* "false"; text is a sequence of one-character strings.                   *)
(***************************************************************************)
EXTENDS Integers, Sequences, FiniteSets, TLC

VARIABLES
    loading,            \* useSupabaseAuth().loading as read by RootLayout
    session,            \* useSupabaseAuth().session as read by RootLayout
    envUrl,             \* process.env.EXPO_PUBLIC_SUPABASE_URL
    envKey,             \* process.env.EXPO_PUBLIC_SUPABASE_ANON_KEY
    view,               \* what RootLayout last returned
    email,              \* VerifyEmailScreen: params.email
    verificationCode,   \* VerifyEmailScreen: the six code inputs
    error,              \* VerifyEmailScreen: inline error text or "null"
    isLoading,          \* VerifyEmailScreen: busy flag
    resendCooldown,     \* VerifyEmailScreen: seconds left before resend
    checkStatus,        \* mount effect: "pending" (getSession in flight) or "done"
    verifyPending,      \* number of verifyOTP calls in flight
    resendPending,      \* number of resendVerificationEmail calls in flight
    alerts,             \* the alerts raised by Alert.alert and not yet answered
    route,              \* the route the router shows
    event,              \* what the last step did towards the outside: a call, a settled call,
                        \* a validation failure, a navigation; "local" for a pure state update
    isSigningOut,       \* SettingsScreen: busy flag of sign-out
    isDeletingAccount,  \* SettingsScreen: busy flag of delete-account
    deleteDialogs,      \* number of 'Delete Account' confirmation dialogs open
    signOutPending,     \* number of signOut calls of handleSignOut in flight
    deletions,          \* the confirmDeleteAccount runs in flight: the call each awaits,
                        \* the calls it has made and the results it has received
    signInEmail,        \* SignIn: email
    password,           \* SignIn: password
    signInError,        \* SignIn: error, inline error text or "null"
    signInLoading,      \* SignIn: isLoading
    needsVerification,  \* SignIn: whether 'Resend Verification Email' is rendered
    signInCalls,        \* SignIn: the signIn and resendVerificationEmail calls in flight,
                        \* each with the email its handler's closure holds
    lastAttempt         \* SignIn: the latest of: an edit of the email, a sign-in attempt
                        \* and how it ended

guardVars == <<loading, session, envUrl, envKey, view>>
verifyVars == <<email, verificationCode, error, isLoading, resendCooldown,
                checkStatus, verifyPending, resendPending, alerts, route, event>>
\* the state of VerifyEmailScreen that the router and Alert do not share
verifyLocalVars == <<email, verificationCode, error, isLoading, resendCooldown,
                     checkStatus, verifyPending, resendPending>>
settingsVars == <<isSigningOut, isDeletingAccount, deleteDialogs, signOutPending, deletions>>
signInVars == <<signInEmail, password, signInError, signInLoading, needsVerification,
                signInCalls, lastAttempt>>
vars == <<loading, session, envUrl, envKey, view,
          email, verificationCode, error, isLoading, resendCooldown,
          checkStatus, verifyPending, resendPending, alerts, route, event,
          isSigningOut, isDeletingAccount, deleteDialogs, signOutPending, deletions,
          signInEmail, password, signInError, signInLoading, needsVerification,
          signInCalls, lastAttempt>>

(***************************************************************************)
(* Bounds of the model.                                                    *)
(***************************************************************************)
\* number of distinct e-mail addresses
MaxEmails == 2
\* length of the longest raw text fragment handed to a code input
MaxRawLen == 2
\* number of calls of one external operation that may be in flight together
MaxPending == 1
\* number of confirmation dialogs that may be open together
MaxDialogs == 2
\* number of confirmDeleteAccount runs that may be in flight together
MaxDeletions == 2

EmailNames == <<"a", "b", "c", "d">>

\* the addresses a@m, b@m, ... as text
Emails == {<<EmailNames[i], "@", "m">> : i \in 1..MaxEmails}

\* the decimal digits the user types, and a key that is not a digit
Digits == {"7"}
NonDigits == {"x"}

(***************************************************************************)
(* Sessions as the auth provider hands them out.                           *)
(***************************************************************************)
ConfirmedAtValues == {"undefined", "null", "2024-01-01T00:00:00Z"}

Users == [kind : {"user"}, email : Emails, email_confirmed_at : ConfirmedAtValues]

Sessions == {[kind |-> "null"]}
            \cup {[kind |-> "session", user |-> [kind |-> "undefined"]]}
            \cup {[kind |-> "session", user |-> u] : u \in Users}

EnvValues == {"undefined", "", "https://project.supabase.co"}

(***************************************************************************)
(* RootLayout                                                              *)
(***************************************************************************)
\* JavaScript's ! on the values the guard reads
Not(v) == IF v \in {"undefined", "null", "", "false"} THEN "true" ELSE "false"

Truthy(v) == Not(v) = "false"

\* !process.env.EXPO_PUBLIC_SUPABASE_URL || !process.env.EXPO_PUBLIC_SUPABASE_ANON_KEY
missingEnvVars(url, key) == Truthy(Not(url)) \/ Truthy(Not(key))

\* !session || (session.user && !session.user.email_confirmed_at)
tabsRedirectExpr(s) ==
    IF s.kind = "null" THEN "true"
    ELSE IF s.user.kind = "undefined" THEN "undefined"
    ELSE Not(s.user.email_confirmed_at)

\* session.user?.email_confirmed_at
confirmedAtOptional(s) ==
    IF s.user.kind = "undefined" THEN "undefined" ELSE s.user.email_confirmed_at

authRedirectMutant(s) ==
    IF s.kind = "null" THEN "false"
    ELSE IF confirmedAtOptional(s) = "null" THEN "true" ELSE "false"

\* !!session && session.user?.email_confirmed_at !== null
authRedirectExpr(s) ==
    IF s.kind = "null" THEN "false"
    ELSE IF confirmedAtOptional(s) # "null" THEN "true" ELSE "false"

RootLayoutEnvFirst(l, s, url, key) ==
    IF missingEnvVars(url, key) THEN [screen |-> "SetupRequired"]
    ELSE IF l THEN [screen |-> "Loading"]
    ELSE [screen |-> "Stack",
          tabsRedirect |-> Truthy(tabsRedirectExpr(s)),
          authRedirect |-> Truthy(authRedirectExpr(s))]

RootLayoutUrlOnly(l, s, url, key) ==
    IF l THEN [screen |-> "Loading"]
    ELSE IF Truthy(Not(url)) THEN [screen |-> "SetupRequired"]
    ELSE [screen |-> "Stack",
          tabsRedirect |-> Truthy(tabsRedirectExpr(s)),
          authRedirect |-> Truthy(authRedirectExpr(s))]

\* what RootLayout returns for the hook's (loading, session) and the environment
RootLayout(l, s, url, key) ==
    IF l THEN [screen |-> "Loading"]
    ELSE IF missingEnvVars(url, key) THEN [screen |-> "SetupRequired"]
    ELSE [screen |-> "Stack",
          tabsRedirect |-> Truthy(tabsRedirectExpr(s)),
          authRedirect |-> Truthy(authRedirectExpr(s))]

\* the four screen states of the guard, read off the rendered tree
Loading == view.screen = "Loading"
SetupRequired == view.screen = "SetupRequired"
TabsReachable == view.screen = "Stack" /\ ~view.tabsRedirect
AuthReachable == view.screen = "Stack" /\ ~view.authRedirect
AuthArea == view.screen = "Stack" /\ view.tabsRedirect /\ ~view.authRedirect
MainArea == view.screen = "Stack" /\ ~view.tabsRedirect /\ view.authRedirect

\* the hook reports a new loading flag; RootLayout renders again
LoadingChange ==
    /\ loading' = ~loading
    /\ view' = RootLayout(loading', session, envUrl, envKey)
    /\ UNCHANGED <<session, envUrl, envKey>>
    /\ UNCHANGED verifyVars
    /\ UNCHANGED settingsVars
    /\ UNCHANGED signInVars

\* the hook reports a new session; RootLayout renders again
SessionChange ==
    /\ \E s \in Sessions :
          /\ s # session
          /\ session' = s
    /\ view' = RootLayout(loading, session', envUrl, envKey)
    /\ UNCHANGED <<loading, envUrl, envKey>>
    /\ UNCHANGED verifyVars
    /\ UNCHANGED settingsVars
    /\ UNCHANGED signInVars

(***************************************************************************)
(* VerifyEmailScreen                                                       *)
(***************************************************************************)
DecimalDigits == {"0", "1", "2", "3", "4", "5", "6", "7", "8", "9"}

\* the keys of the code entry on its own: two digits, a letter, a blank
TypedKeys == {"3", "7", "x", " "}

\* the raw text fragments of the code entry on its own
TypedRawTexts == UNION {[1..n -> TypedKeys] : n \in 0..MaxRawLen}

\* the raw text fragments a code input may be handed
RawTexts == UNION {[1..n -> Digits \cup NonDigits] : n \in 0..MaxRawLen}

\* maxLength={1} of the TextInput: the native field keeps one character
maxLengthMutant(text) == text
maxLength(text) == IF Len(text) > 1 THEN SubSeq(text, 1, 1) ELSE text

\* text.replace(/[^0-9]/g, '')
IsDecimalDigit(c) == c \in DecimalDigits
replaceNonDigits(text) == SelectSeq(text, IsDecimalDigit)

\* verificationCode.join('')
join(code) == code[0] \o code[1] \o code[2] \o code[3] \o code[4] \o code[5]

\* useState(['', '', '', '', '', ''])
emptyCode == [i \in 0..5 |-> <<>>]

\* the number of code positions that hold a character
Filled(code) == Cardinality({i \in 0..5 : code[i] # <<>>})

IncompleteCodeMessage == "Please enter all 6 digits of your verification code"
VerifyFallbackMessage == "Failed to verify your email. Please try again."
ResendFallbackMessage == "Failed to resend verification code"

\* the errors the auth provider reports for verifyOTP and resendVerificationEmail
VerifyErrors == {[message |-> "Token has expired or is invalid"]}
ResendErrors == {[message |-> "Email rate limit exceeded"]}

\* what a verifyOTP call may settle with
VerifyResults ==
    {[kind |-> "error", error |-> e] : e \in VerifyErrors}
    \cup {[kind |-> "throw", error |-> e] : e \in VerifyErrors}
    \cup {[kind |-> "ok", session |-> TRUE], [kind |-> "ok", session |-> FALSE]}

\* what a resendVerificationEmail call may settle with
ResendResults ==
    {[kind |-> "error", error |-> e] : e \in ResendErrors}
    \cup {[kind |-> "throw", error |-> e] : e \in ResendErrors}
    \cup {[kind |-> "ok"]}

\* setResendCooldown(60)
RESEND_COOLDOWN == 60

\* useState(0): the resendCooldown the first render's closures hold
firstRenderCooldown == 0

\* the screen is the one the router shows
MountedMutant == TRUE
Mounted == route = "/auth/verify"

\* an alert is modal: the screen under it takes no touches until it is answered
Touchable == Mounted /\ alerts = {}

\* code.length !== 6
codeIncompleteMutant(code) == Len(code) < 5
codeIncomplete(code) == Len(code) # 6

\* the button of the 'Email Verified' alert: 'Continue' with a session, 'Sign In' without
verifiedAlertMutant(hasSession) == "Continue"
verifiedAlert(hasSession) == IF hasSession THEN "Continue" ELSE "Sign In"

\* the onPress of an alert button: router.replace for the two 'Email Verified' buttons
alertRoute(a, current) ==
    CASE a = "Continue" -> "/(tabs)"
      [] a = "Sign In" -> "/auth/sign-in"
      [] OTHER -> current

\* disabled={isLoading} of the Verify button, editable={!isLoading} of the inputs
VerifyDisabled == isLoading
\* disabled={resendCooldown > 0 || isLoading} of the resend control
ResendDisabled == resendCooldown > 0 \/ isLoading

\* err.message || err.originalError || 'Failed to verify your email. Please try again.'
verifyErrorTextMutant(err) == VerifyFallbackMessage
verifyErrorText(err) == IF Truthy(err.message) THEN err.message ELSE VerifyFallbackMessage
\* err.message || 'Failed to resend verification code'
resendErrorText(err) == IF Truthy(err.message) THEN err.message ELSE ResendFallbackMessage

alreadyVerifiedAnyEmail(s, mail) ==
    /\ s.kind = "session"
    /\ s.user.kind = "user"
    /\ Truthy(s.user.email_confirmed_at)

\* session?.user?.email_confirmed_at && session.user.email === email
alreadyVerified(s, mail) ==
    /\ s.kind = "session"
    /\ s.user.kind = "user"
    /\ Truthy(s.user.email_confirmed_at)
    /\ s.user.email = mail

\* newCode[index] = text on a copy of verificationCode
setDigitMutant(code, index, text) == [j \in 0..5 |-> IF j >= index THEN text ELSE code[j]]
setDigit(code, index, text) == [code EXCEPT ![index] = text]

\* what a change of input index leaves for the observer: the index, the text,
\* the code before the change and, when the step before changed the same
\* input, the code before that one
codeChangeEvent(index, text) ==
    [kind |-> "codeChange", index |-> index, text |-> text,
     before |-> verificationCode,
     previous |-> IF event.kind = "codeChange" /\ event.index = index
                  THEN {event.before} ELSE {}]

\* onChangeText of input index, handed one of the raw texts: the text the
\* field kept, without its non-digits, replaces the digit
codeChange(raws, observed) ==
    /\ Touchable
    /\ ~VerifyDisabled
    /\ \E index \in 0..5, text \in {replaceNonDigits(maxLength(raw)) : raw \in raws} :
          /\ verificationCode' = setDigit(verificationCode, index, text)
          /\ event' = IF observed THEN codeChangeEvent(index, text) ELSE [kind |-> "local"]
    /\ UNCHANGED <<email, error, isLoading, resendCooldown, checkStatus,
                   verifyPending, resendPending, alerts, route>>
    /\ UNCHANGED guardVars
    /\ UNCHANGED settingsVars
    /\ UNCHANGED signInVars

handleCodeChange == codeChange(RawTexts, FALSE)

\* handleVerify up to its await
handleVerify ==
    /\ Touchable
    /\ ~VerifyDisabled
    /\ LET code == join(verificationCode) IN
          IF codeIncomplete(code)
          THEN /\ error' = IncompleteCodeMessage
               /\ event' = [kind |-> "verifyInvalid"]
               /\ UNCHANGED <<isLoading, verifyPending>>
          ELSE /\ verifyPending < MaxPending
               /\ isLoading' = TRUE
               /\ error' = "null"
               /\ verifyPending' = verifyPending + 1
               /\ event' = [kind |-> "verifyCall", code |-> code]
    /\ UNCHANGED <<email, verificationCode, resendCooldown, checkStatus,
                   resendPending, alerts, route>>
    /\ UNCHANGED guardVars
    /\ UNCHANGED settingsVars
    /\ UNCHANGED signInVars

\* handleVerify from the settling of verifyOTP to the end of finally
verifyOTPSettles ==
    /\ verifyPending > 0
    /\ verifyPending' = verifyPending - 1
    /\ \E r \in VerifyResults :
          /\ event' = [kind |-> "verifySettled", result |-> r, mounted |-> Mounted]
          /\ IF r.kind = "ok"
             THEN /\ alerts' = alerts \cup {verifiedAlert(r.session)}
                  /\ error' = error
             ELSE /\ alerts' = alerts
                  /\ error' = IF Mounted THEN verifyErrorText(r.error) ELSE error
    /\ isLoading' = IF Mounted THEN FALSE ELSE isLoading
    /\ UNCHANGED <<email, verificationCode, resendCooldown, checkStatus,
                   resendPending, route>>
    /\ UNCHANGED guardVars
    /\ UNCHANGED settingsVars
    /\ UNCHANGED signInVars

\* handleResendCode up to its await, run by a closure that holds cooldown
handleResendCode(cooldown, from) ==
    IF cooldown > 0
    THEN /\ event' = [kind |-> "resendSkipped", from |-> from]
         /\ UNCHANGED <<isLoading, error, resendPending>>
    ELSE /\ resendPending < MaxPending
         /\ isLoading' = IF Mounted THEN TRUE ELSE isLoading
         /\ error' = IF Mounted THEN "null" ELSE error
         /\ resendPending' = resendPending + 1
         /\ event' = [kind |-> "resendCall", from |-> from]

\* onPress of the resend control
pressResend ==
    /\ Touchable
    /\ ~ResendDisabled
    /\ handleResendCode(resendCooldown, [by |-> "control"])
    /\ UNCHANGED <<email, verificationCode, resendCooldown, checkStatus,
                   verifyPending, alerts, route>>
    /\ UNCHANGED guardVars
    /\ UNCHANGED settingsVars
    /\ UNCHANGED signInVars

\* handleResendCode from the settling of resendVerificationEmail to the end of finally
resendSettles ==
    /\ resendPending > 0
    /\ resendPending' = resendPending - 1
    /\ \E r \in ResendResults :
          /\ event' = [kind |-> "resendSettled", result |-> r, mounted |-> Mounted]
          /\ IF r.kind = "ok"
             THEN /\ resendCooldown' = IF Mounted THEN RESEND_COOLDOWN ELSE resendCooldown
                  /\ alerts' = alerts \cup {"Code Sent"}
                  /\ error' = error
             ELSE /\ resendCooldown' = resendCooldown
                  /\ alerts' = alerts
                  /\ error' = IF Mounted THEN resendErrorText(r.error) ELSE error
    /\ isLoading' = IF Mounted THEN FALSE ELSE isLoading
    /\ UNCHANGED <<email, verificationCode, checkStatus, verifyPending, route>>
    /\ UNCHANGED guardVars
    /\ UNCHANGED settingsVars
    /\ UNCHANGED signInVars

\* checkVerificationStatus from the settling of getSession: the effect of the first render
getSessionSettles ==
    /\ checkStatus = "pending"
    /\ checkStatus' = "done"
    /\ \E s \in Sessions :
          IF alreadyVerified(s, email)
          THEN /\ route' = "/(tabs)"
               /\ event' = [kind |-> "alreadyVerified", session |-> s]
               /\ UNCHANGED <<isLoading, error, resendPending>>
          ELSE IF email # <<>> /\ firstRenderCooldown = 0
          THEN /\ handleResendCode(firstRenderCooldown, [by |-> "mount", session |-> s])
               /\ route' = route
          ELSE /\ event' = [kind |-> "checkDone", session |-> s]
               /\ UNCHANGED <<isLoading, error, resendPending, route>>
    /\ UNCHANGED <<email, verificationCode, resendCooldown, verifyPending, alerts>>
    /\ UNCHANGED guardVars
    /\ UNCHANGED settingsVars
    /\ UNCHANGED signInVars

\* getSession rejects: the catch of checkVerificationStatus logs the error
getSessionThrows ==
    /\ checkStatus = "pending"
    /\ checkStatus' = "done"
    /\ event' = [kind |-> "checkFailed"]
    /\ UNCHANGED <<email, verificationCode, error, isLoading, resendCooldown,
                   verifyPending, resendPending, alerts, route>>
    /\ UNCHANGED guardVars
    /\ UNCHANGED settingsVars
    /\ UNCHANGED signInVars

\* the cooldown effect's timer fires after one second
cooldownTick ==
    /\ Mounted
    /\ resendCooldown > 0
    /\ resendCooldown' = resendCooldown - 1
    /\ event' = [kind |-> "local"]
    /\ UNCHANGED <<email, verificationCode, error, isLoading, checkStatus,
                   verifyPending, resendPending, alerts, route>>
    /\ UNCHANGED guardVars
    /\ UNCHANGED settingsVars
    /\ UNCHANGED signInVars

\* the user answers an alert: its button's onPress runs
pressAlert ==
    /\ \E a \in alerts :
          /\ alerts' = alerts \ {a}
          /\ route' = alertRoute(a, route)
          /\ event' = [kind |-> "alertPressed", alert |-> a]
    /\ UNCHANGED <<email, verificationCode, error, isLoading, resendCooldown,
                   checkStatus, verifyPending, resendPending>>
    /\ UNCHANGED guardVars
    /\ UNCHANGED settingsVars
    /\ UNCHANGED signInVars

\* onPress of 'Back to Sign In'
navigateToSignIn ==
    /\ Touchable
    /\ route' = "/auth/sign-in"
    /\ event' = [kind |-> "navigateToSignIn"]
    /\ UNCHANGED <<email, verificationCode, error, isLoading, resendCooldown,
                   checkStatus, verifyPending, resendPending, alerts>>
    /\ UNCHANGED guardVars
    /\ UNCHANGED settingsVars
    /\ UNCHANGED signInVars

(***************************************************************************)
(* Specifications                                                          *)
(***************************************************************************)
\* VerifyEmailScreen after its first render and the start of its mount effect
VerifyScreenMounted ==
    /\ verificationCode = emptyCode
    /\ error = "null"
    /\ isLoading = FALSE
    /\ resendCooldown = firstRenderCooldown
    /\ checkStatus = "pending"
    /\ verifyPending = 0
    /\ resendPending = 0
    /\ alerts = {}
    /\ route = "/auth/verify"
    /\ event = [kind |-> "mount"]

\* SettingsScreen after its first render
SettingsScreenRendered ==
    /\ isSigningOut = FALSE
    /\ isDeletingAccount = FALSE
    /\ deleteDialogs = 0
    /\ signOutPending = 0
    /\ deletions = <<>>

\* SignIn after its first render
SignInScreenRendered ==
    /\ signInEmail = <<>>
    /\ password = <<>>
    /\ signInError = "null"
    /\ signInLoading = FALSE
    /\ needsVerification = FALSE
    /\ signInCalls = <<>>
    /\ lastAttempt = [kind |-> "none"]

\* RootLayout after its first render
RootLayoutRendered ==
    /\ loading \in BOOLEAN
    /\ session \in Sessions
    /\ envUrl \in EnvValues
    /\ envKey \in EnvValues
    /\ view = RootLayout(loading, session, envUrl, envKey)

InitGuard ==
    /\ RootLayoutRendered
    /\ email = <<>>
    /\ VerifyScreenMounted
    /\ SettingsScreenRendered
    /\ SignInScreenRendered

NextGuard == LoadingChange \/ SessionChange

SpecGuard == InitGuard /\ [][NextGuard]_vars

InitVerify ==
    /\ loading = FALSE
    /\ session = [kind |-> "null"]
    /\ envUrl = "https://project.supabase.co"
    /\ envKey = "anon-key"
    /\ view = RootLayout(loading, session, envUrl, envKey)
    /\ email \in {<<EmailNames[1], "@", "m">>, <<>>}
    /\ VerifyScreenMounted
    /\ SettingsScreenRendered
    /\ SignInScreenRendered

NextVerify ==
    \/ handleCodeChange
    \/ handleVerify
    \/ verifyOTPSettles
    \/ pressResend
    \/ resendSettles
    \/ getSessionSettles
    \/ getSessionThrows
    \/ cooldownTick
    \/ pressAlert
    \/ navigateToSignIn

SpecVerify == InitVerify /\ [][NextVerify]_vars

\* the code entry on its own: the screen after its mount effect ended without
\* a resend (getSession rejected), every change of an input observed
InitDigits ==
    /\ loading = FALSE
    /\ session = [kind |-> "null"]
    /\ envUrl = "https://project.supabase.co"
    /\ envKey = "anon-key"
    /\ view = RootLayout(loading, session, envUrl, envKey)
    /\ email = <<EmailNames[1], "@", "m">>
    /\ verificationCode = emptyCode
    /\ error = "null"
    /\ isLoading = FALSE
    /\ resendCooldown = firstRenderCooldown
    /\ checkStatus = "done"
    /\ verifyPending = 0
    /\ resendPending = 0
    /\ alerts = {}
    /\ route = "/auth/verify"
    /\ event = [kind |-> "checkFailed"]
    /\ SettingsScreenRendered
    /\ SignInScreenRendered

onChangeText == codeChange(TypedRawTexts, TRUE)

NextDigits ==
    \/ onChangeText
    \/ handleVerify
    \/ verifyOTPSettles
    \/ pressAlert

SpecDigits == InitDigits /\ [][NextDigits]_vars

(***************************************************************************)
(* SettingsScreen                                                          *)
(***************************************************************************)
\* the errors the backend reports to the settings actions
SettingsErrors == {[message |-> "Network request failed"]}

\* what supabase.auth.getUser() may settle with: a user, no user, a rejection
GetUserResults ==
    {[kind |-> "user", id |-> "u1"], [kind |-> "null"]}
    \cup {[kind |-> "throw", error |-> e] : e \in SettingsErrors}

\* what profiles.delete(), admin.deleteUser() and signOut() may settle with
CallResults ==
    {[kind |-> "ok"]}
    \cup {[kind |-> "error", error |-> e] : e \in SettingsErrors}
    \cup {[kind |-> "throw", error |-> e] : e \in SettingsErrors}

SignOutFallbackMessage == "Failed to sign out"
DeleteFailedMessage == "Failed to delete account. Please try again or contact support."
NotAuthenticatedError == [message |-> "User not authenticated"]

\* the screen is the one the router shows
SettingsMounted == route = "/settings"

\* an alert or dialog is modal: the screen under it takes no touches
SettingsTouchable == SettingsMounted /\ alerts = {} /\ deleteDialogs = 0

\* Alert.alert('Error', err.message || 'Failed to sign out')
signOutAlertMutant(err) == [title |-> "Error", message |-> <<SignOutFallbackMessage>>]
signOutAlert(err) ==
    [title |-> "Error",
     message |-> <<IF Truthy(err.message) THEN err.message ELSE SignOutFallbackMessage>>]

\* Alert.alert('Error', 'Failed to delete account. ...' + (err.message ? `\n\nError: ${err.message}` : ''))
deleteAlert(err) ==
    [title |-> "Error",
     message |-> <<DeleteFailedMessage>>
                 \o (IF Truthy(err.message) THEN <<"\n\nError: ", err.message>> ELSE <<>>)]

\* the onPress of each button of the confirmation dialog
deleteDialogButtonMutant(choice) == "confirmDeleteAccount"
deleteDialogButton(choice) ==
    IF choice = "Delete Account" THEN "confirmDeleteAccount" ELSE "none"

\* !user
userMissingMutant(r) == FALSE
userMissing(r) == r.kind = "null"

\* nothing is thrown: the run goes on
NoError == [thrown |-> FALSE]

\* what the run does with the value a settled call produced: the error it
\* throws into the catch, or NoError when it goes on
thrownBy(pc, r) ==
    IF r.kind = "throw" THEN r.error
    ELSE IF pc = "getUser" THEN (IF userMissing(r) THEN NotAuthenticatedError ELSE NoError)
    ELSE IF pc = "signOut" THEN NoError
    ELSE IF r.kind = "error" THEN r.error
    ELSE NoError

\* the call that follows a call of confirmDeleteAccount, "router.replace" after the last
nextCall(pc) ==
    CASE pc = "getUser" -> "deleteProfile"
      [] pc = "deleteProfile" -> "deleteUser"
      [] pc = "deleteUser" -> "signOut"
      [] pc = "signOut" -> "router.replace"

\* the sequence q without its element i
RemoveAt(q, i) == SubSeq(q, 1, i - 1) \o SubSeq(q, i + 1, Len(q))

\* onPress of 'Sign Out': handleSignOut up to its await
handleSignOut ==
    /\ SettingsTouchable
    /\ ~isSigningOut
    /\ signOutPending < MaxPending
    /\ isSigningOut' = TRUE
    /\ signOutPending' = signOutPending + 1
    /\ event' = [kind |-> "signOutCall"]
    /\ UNCHANGED <<isDeletingAccount, deleteDialogs, deletions, alerts, route>>
    /\ UNCHANGED guardVars
    /\ UNCHANGED verifyLocalVars
    /\ UNCHANGED signInVars

\* handleSignOut from the settling of signOut to the end of finally
signOutSettles ==
    /\ signOutPending > 0
    /\ signOutPending' = signOutPending - 1
    /\ \E r \in CallResults :
          /\ event' = [kind |-> "signOutSettled", result |-> r, mounted |-> SettingsMounted]
          /\ IF r.kind = "ok"
             THEN /\ route' = "/auth/sign-in"
                  /\ alerts' = alerts
             ELSE /\ route' = route
                  /\ alerts' = alerts \cup {signOutAlert(r.error)}
    /\ isSigningOut' = IF SettingsMounted THEN FALSE ELSE isSigningOut
    /\ UNCHANGED <<isDeletingAccount, deleteDialogs, deletions>>
    /\ UNCHANGED guardVars
    /\ UNCHANGED verifyLocalVars
    /\ UNCHANGED signInVars

\* onPress of 'Delete Account': handleDeleteAccount opens the confirmation dialog;
\* a second press can arrive before the first dialog takes the touches
handleDeleteAccount ==
    /\ SettingsMounted
    /\ alerts = {}
    /\ ~isDeletingAccount
    /\ deleteDialogs < MaxDialogs
    /\ deleteDialogs' = deleteDialogs + 1
    /\ event' = [kind |-> "deleteDialogOpened"]
    /\ UNCHANGED <<isSigningOut, isDeletingAccount, signOutPending, deletions, alerts, route>>
    /\ UNCHANGED guardVars
    /\ UNCHANGED verifyLocalVars
    /\ UNCHANGED signInVars

\* the user answers a confirmation dialog; 'Delete Account' runs
\* confirmDeleteAccount up to its first await
pressDeleteDialog ==
    /\ deleteDialogs > 0
    /\ deleteDialogs' = deleteDialogs - 1
    /\ \E choice \in {"Cancel", "Delete Account"} :
          /\ event' = [kind |-> "dialogPressed", choice |-> choice]
          /\ IF deleteDialogButton(choice) = "confirmDeleteAccount"
             THEN /\ Len(deletions) < MaxDeletions
                  /\ isDeletingAccount' = IF SettingsMounted THEN TRUE ELSE isDeletingAccount
                  /\ deletions' = Append(deletions,
                        [pc |-> "getUser", calls |-> <<"getUser">>, results |-> <<>>])
             ELSE UNCHANGED <<isDeletingAccount, deletions>>
    /\ UNCHANGED <<isSigningOut, signOutPending, alerts, route>>
    /\ UNCHANGED guardVars
    /\ UNCHANGED verifyLocalVars
    /\ UNCHANGED signInVars

\* confirmDeleteAccount from the settling of the call it awaits to its next
\* await, or through catch and finally to its end
deleteCallSettles ==
    /\ \E i \in 1..Len(deletions) :
          LET d == deletions[i]
              Results == IF d.pc = "getUser" THEN GetUserResults ELSE CallResults
          IN \E r \in Results :
               LET err == thrownBy(d.pc, r)
                   results == Append(d.results, r)
               IN IF err # NoError
                  THEN /\ alerts' = alerts \cup {deleteAlert(err)}
                       /\ route' = route
                       /\ isDeletingAccount' =
                             IF SettingsMounted THEN FALSE ELSE isDeletingAccount
                       /\ deletions' = RemoveAt(deletions, i)
                       /\ event' = [kind |-> "deleteFinished", calls |-> d.calls,
                                    results |-> results, mounted |-> SettingsMounted]
                  ELSE IF nextCall(d.pc) = "router.replace"
                  THEN /\ alerts' = alerts
                       /\ route' = "/auth/sign-in"
                       /\ isDeletingAccount' =
                             IF SettingsMounted THEN FALSE ELSE isDeletingAccount
                       /\ deletions' = RemoveAt(deletions, i)
                       /\ event' = [kind |-> "deleteFinished", calls |-> d.calls,
                                    results |-> results, mounted |-> SettingsMounted]
                  ELSE /\ deletions' = [deletions EXCEPT ![i] =
                             [pc |-> nextCall(d.pc),
                              calls |-> Append(d.calls, nextCall(d.pc)),
                              results |-> results]]
                       /\ event' = [kind |-> "deleteCall", call |-> nextCall(d.pc)]
                       /\ UNCHANGED <<alerts, route, isDeletingAccount>>
    /\ UNCHANGED <<isSigningOut, deleteDialogs, signOutPending>>
    /\ UNCHANGED guardVars
    /\ UNCHANGED verifyLocalVars
    /\ UNCHANGED signInVars

\* the user dismisses an 'Error' alert
dismissErrorAlert ==
    /\ \E a \in alerts :
          /\ alerts' = alerts \ {a}
          /\ event' = [kind |-> "alertDismissed"]
    /\ UNCHANGED route
    /\ UNCHANGED settingsVars
    /\ UNCHANGED guardVars
    /\ UNCHANGED verifyLocalVars
    /\ UNCHANGED signInVars

\* onPress of the header's back button: router.back()
navigateBack ==
    /\ SettingsTouchable
    /\ route' = "/(tabs)"
    /\ event' = [kind |-> "navigateBack"]
    /\ UNCHANGED alerts
    /\ UNCHANGED settingsVars
    /\ UNCHANGED guardVars
    /\ UNCHANGED verifyLocalVars
    /\ UNCHANGED signInVars

InitSettings ==
    /\ loading = FALSE
    /\ session = [kind |-> "session",
                  user |-> [kind |-> "user", email |-> <<EmailNames[1], "@", "m">>,
                            email_confirmed_at |-> "2024-01-01T00:00:00Z"]]
    /\ envUrl = "https://project.supabase.co"
    /\ envKey = "anon-key"
    /\ view = RootLayout(loading, session, envUrl, envKey)
    /\ email = <<>>
    /\ verificationCode = emptyCode
    /\ error = "null"
    /\ isLoading = FALSE
    /\ resendCooldown = firstRenderCooldown
    /\ checkStatus = "done"
    /\ verifyPending = 0
    /\ resendPending = 0
    /\ alerts = {}
    /\ route = "/settings"
    /\ event = [kind |-> "mount"]
    /\ SettingsScreenRendered
    /\ SignInScreenRendered

NextSettings ==
    \/ handleSignOut
    \/ signOutSettles
    \/ handleDeleteAccount
    \/ pressDeleteDialog
    \/ deleteCallSettles
    \/ dismissErrorAlert
    \/ navigateBack

SpecSettings == InitSettings /\ [][NextSettings]_vars

(***************************************************************************)
(* SignIn                                                                  *)
(***************************************************************************)
\* the domain of the addresses that may sign in
AllowedDomain == <<"@", "m", "a", "i", "l", ".", "u", "t", "d", "t", ".", "e", "d", "u">>

\* the texts the user may put in the email field: nothing, a blank, a word,
\* an address of another domain, the bare domain, an address of the domain
\* after a blank, and addresses of the domain
SignInEmailTexts ==
    {<<>>, <<" ">>, <<"s">>, <<"s", "@", "g", ".", "c">>, AllowedDomain,
     <<" ", "s">> \o AllowedDomain}
    \cup {<<EmailNames[i]>> \o AllowedDomain : i \in 1..MaxEmails}

\* the texts the user may put in the password field
PasswordTexts == {<<>>, <<"p">>}

\* the errors the auth provider reports for signIn
SignInErrors == {[message |-> "Email not confirmed"],
                 [message |-> "Invalid login credentials"]}

\* what a signIn call may settle with
SignInResults ==
    {[kind |-> "error", error |-> e] : e \in SignInErrors}
    \cup {[kind |-> "throw", error |-> e] : e \in SignInErrors}
    \cup {[kind |-> "ok"]}

EmailRequiredMessage == "Email is required"
InvalidFormatMessage == "Invalid email format"
DomainMessage == "Only @mail.utdt.edu email addresses are allowed"
PasswordRequiredMessage == "Password is required"
EnterEmailMessage == "Please enter your email address"
SignInFallbackMessage == "Failed to sign in"
SignInResendFallbackMessage == "Failed to resend verification email"

\* \s of a regular expression, on the characters the texts are made of
IsSpace(c) == c \in {" ", "\t", "\n"}

\* email.trim()
trim(text) ==
    LET kept == {i \in 1..Len(text) : ~IsSpace(text[i])}
    IN IF kept = {} THEN <<>>
       ELSE SubSeq(text, CHOOSE i \in kept : \A j \in kept : i <= j,
                         CHOOSE i \in kept : \A j \in kept : i >= j)

\* /^[^\s@]+@[^\s@]+\.[^\s@]+$/.test(email)
emailRegexTest(text) ==
    \E at \in 1..Len(text), dot \in 1..Len(text) :
        /\ 1 < at
        /\ text[at] = "@"
        /\ at + 1 < dot
        /\ text[dot] = "."
        /\ dot < Len(text)
        /\ \A i \in (1..Len(text)) \ {at} : ~IsSpace(text[i]) /\ text[i] # "@"

\* validateEmailDomain(email) of useSupabaseAuth: the address is of the allowed domain
validateEmailDomain(text) ==
    /\ Len(text) >= Len(AllowedDomain)
    /\ SubSeq(text, Len(text) - Len(AllowedDomain) + 1, Len(text)) = AllowedDomain

validateEmailMutant(text) ==
    IF trim(text) = <<>> THEN EmailRequiredMessage
    ELSE IF ~validateEmailDomain(text) THEN DomainMessage
    ELSE "null"

\* validateEmail: the message of the first check that fails, or null
validateEmail(text) ==
    IF trim(text) = <<>> THEN EmailRequiredMessage
    ELSE IF ~emailRegexTest(text) THEN InvalidFormatMessage
    ELSE IF ~validateEmailDomain(text) THEN DomainMessage
    ELSE "null"

\* signInError.message.includes('Email not confirmed'), on the provider's messages
includesEmailNotConfirmed(message) == message = "Email not confirmed"

\* err.message || 'Failed to sign in'
signInErrorText(err) == IF Truthy(err.message) THEN err.message ELSE SignInFallbackMessage
\* err.message || 'Failed to resend verification email'
signInResendErrorText(err) ==
    IF Truthy(err.message) THEN err.message ELSE SignInResendFallbackMessage

\* the screen is the one the router shows
SignInMounted == route = "/auth/sign-in"

\* disabled={isLoading} of both buttons, editable={!isLoading} of both inputs
SignInDisabled == signInLoading

\* setNeedsVerification(false) of the email input's onChangeText
needsVerificationAfterEditMutant(current) == current
needsVerificationAfterEdit(current) == FALSE

\* setIsLoading(false) of handleSignIn's finally
loadingAfterSignInMutant(r) == r.kind = "ok"
loadingAfterSignIn(r) == FALSE

\* onChangeText of the email input
changeEmail ==
    /\ SignInMounted
    /\ ~SignInDisabled
    /\ \E text \in SignInEmailTexts :
          /\ text # signInEmail
          /\ signInEmail' = text
    /\ signInError' = "null"
    /\ needsVerification' = needsVerificationAfterEdit(needsVerification)
    /\ lastAttempt' = [kind |-> "edited"]
    /\ event' = [kind |-> "local"]
    /\ UNCHANGED <<password, signInLoading, signInCalls>>
    /\ UNCHANGED <<alerts, route>>
    /\ UNCHANGED guardVars
    /\ UNCHANGED verifyLocalVars
    /\ UNCHANGED settingsVars

\* onChangeText of the password input
changePassword ==
    /\ SignInMounted
    /\ ~SignInDisabled
    /\ \E text \in PasswordTexts :
          /\ text # password
          /\ password' = text
    /\ signInError' = "null"
    /\ event' = [kind |-> "local"]
    /\ UNCHANGED <<signInEmail, signInLoading, needsVerification, signInCalls, lastAttempt>>
    /\ UNCHANGED <<alerts, route>>
    /\ UNCHANGED guardVars
    /\ UNCHANGED verifyLocalVars
    /\ UNCHANGED settingsVars

\* onPress of 'Sign In': handleSignIn up to its await
handleSignIn ==
    /\ SignInMounted
    /\ ~SignInDisabled
    /\ needsVerification' = FALSE
    /\ LET emailError == validateEmail(signInEmail) IN
          IF Truthy(emailError)
          THEN /\ signInError' = emailError
               /\ event' = [kind |-> "signInInvalid", message |-> emailError]
               /\ lastAttempt' = [kind |-> "blocked"]
               /\ UNCHANGED <<signInLoading, signInCalls>>
          ELSE IF password = <<>>
          THEN /\ signInError' = PasswordRequiredMessage
               /\ event' = [kind |-> "signInInvalid", message |-> PasswordRequiredMessage]
               /\ lastAttempt' = [kind |-> "blocked"]
               /\ UNCHANGED <<signInLoading, signInCalls>>
          ELSE /\ signInError' = "null"
               /\ signInLoading' = TRUE
               /\ signInCalls' = Append(signInCalls, [op |-> "signIn", email |-> signInEmail])
               /\ event' = [kind |-> "signInCall", email |-> signInEmail,
                            password |-> password]
               /\ lastAttempt' = [kind |-> "pending", email |-> signInEmail]
    /\ UNCHANGED <<signInEmail, password>>
    /\ UNCHANGED <<alerts, route>>
    /\ UNCHANGED guardVars
    /\ UNCHANGED verifyLocalVars
    /\ UNCHANGED settingsVars

\* handleSignIn from the settling of signIn to the end of finally
signInSettles ==
    /\ \E i \in 1..Len(signInCalls), r \in SignInResults :
          /\ signInCalls[i].op = "signIn"
          /\ signInCalls' = RemoveAt(signInCalls, i)
          /\ event' = [kind |-> "signInSettled", result |-> r, mounted |-> SignInMounted]
          /\ needsVerification' =
                IF /\ SignInMounted
                   /\ r.kind = "error"
                   /\ includesEmailNotConfirmed(r.error.message)
                THEN TRUE ELSE needsVerification
          /\ signInError' = IF SignInMounted /\ r.kind # "ok"
                            THEN signInErrorText(r.error) ELSE signInError
          /\ signInLoading' = IF SignInMounted THEN loadingAfterSignIn(r) ELSE signInLoading
          /\ lastAttempt' = IF lastAttempt = [kind |-> "pending", email |-> signInCalls[i].email]
                            THEN [kind |-> "settled", email |-> signInCalls[i].email,
                                  result |-> r]
                            ELSE lastAttempt
    /\ UNCHANGED <<signInEmail, password>>
    /\ UNCHANGED <<alerts, route>>
    /\ UNCHANGED guardVars
    /\ UNCHANGED verifyLocalVars
    /\ UNCHANGED settingsVars

\* onPress of 'Resend Verification Email', rendered while needsVerification:
\* handleResendVerification up to its await
handleResendVerification ==
    /\ SignInMounted
    /\ needsVerification
    /\ ~SignInDisabled
    /\ IF signInEmail = <<>>
       THEN /\ signInError' = EnterEmailMessage
            /\ event' = [kind |-> "signInResendInvalid"]
            /\ UNCHANGED <<signInLoading, signInCalls>>
       ELSE /\ signInLoading' = TRUE
            /\ signInError' = "null"
            /\ signInCalls' = Append(signInCalls, [op |-> "resend", email |-> signInEmail])
            /\ event' = [kind |-> "signInResendCall", email |-> signInEmail]
    /\ UNCHANGED <<signInEmail, password, needsVerification, lastAttempt>>
    /\ UNCHANGED <<alerts, route>>
    /\ UNCHANGED guardVars
    /\ UNCHANGED verifyLocalVars
    /\ UNCHANGED settingsVars

\* handleResendVerification from the settling of resendVerificationEmail to the
\* end of finally; router.push mounts VerifyEmailScreen with the email as parameter
signInResendSettles ==
    /\ \E i \in 1..Len(signInCalls), r \in ResendResults :
          /\ signInCalls[i].op = "resend"
          /\ signInCalls' = RemoveAt(signInCalls, i)
          /\ event' = [kind |-> "signInResendSettled", result |-> r,
                       email |-> signInCalls[i].email, mounted |-> SignInMounted]
          /\ IF r.kind = "ok"
             THEN /\ route' = "/auth/verify"
                  /\ email' = signInCalls[i].email
                  /\ verificationCode' = emptyCode
                  /\ error' = "null"
                  /\ isLoading' = FALSE
                  /\ resendCooldown' = firstRenderCooldown
                  /\ checkStatus' = "pending"
                  /\ signInError' = signInError
             ELSE /\ signInError' = IF SignInMounted
                                    THEN signInResendErrorText(r.error) ELSE signInError
                  /\ UNCHANGED <<route, email, verificationCode, error, isLoading,
                                 resendCooldown, checkStatus>>
    /\ signInLoading' = IF SignInMounted THEN FALSE ELSE signInLoading
    /\ UNCHANGED <<signInEmail, password, needsVerification, lastAttempt>>
    /\ UNCHANGED <<verifyPending, resendPending, alerts>>
    /\ UNCHANGED guardVars
    /\ UNCHANGED settingsVars

\* the hook reports a session that makes RootLayout redirect the auth group:
\* the sign-in screen is unmounted
authRedirect ==
    /\ SignInMounted
    /\ \E s \in Sessions :
          /\ s # session
          /\ Truthy(authRedirectExpr(s))
          /\ session' = s
    /\ view' = RootLayout(loading, session', envUrl, envKey)
    /\ route' = "/(tabs)"
    /\ event' = [kind |-> "authRedirect"]
    /\ UNCHANGED <<loading, envUrl, envKey>>
    /\ UNCHANGED alerts
    /\ UNCHANGED verifyLocalVars
    /\ UNCHANGED settingsVars
    /\ UNCHANGED signInVars

InitSignIn ==
    /\ loading = FALSE
    /\ session = [kind |-> "null"]
    /\ envUrl = "https://project.supabase.co"
    /\ envKey = "anon-key"
    /\ view = RootLayout(loading, session, envUrl, envKey)
    /\ email = <<>>
    /\ verificationCode = emptyCode
    /\ error = "null"
    /\ isLoading = FALSE
    /\ resendCooldown = firstRenderCooldown
    /\ checkStatus = "done"
    /\ verifyPending = 0
    /\ resendPending = 0
    /\ alerts = {}
    /\ route = "/auth/sign-in"
    /\ event = [kind |-> "mount"]
    /\ SettingsScreenRendered
    /\ SignInScreenRendered

NextSignIn ==
    \/ changeEmail
    \/ changePassword
    \/ handleSignIn
    \/ signInSettles
    \/ handleResendVerification
    \/ signInResendSettles
    \/ authRedirect

SpecSignIn == InitSignIn /\ [][NextSignIn]_vars

(***************************************************************************)
(* Route guard properties (under SpecGuard)                                *)
(***************************************************************************)
\* both connection parameters are set
ConfigPresent == envUrl \notin {"undefined", ""} /\ envKey \notin {"undefined", ""}

\* the session's user carries a confirmation timestamp
SessionConfirmed ==
    /\ session.kind = "session"
    /\ session.user.kind = "user"
    /\ session.user.email_confirmed_at \notin {"undefined", "null"}

\* there is no session, or its user's confirmation timestamp is null or absent
SessionUnconfirmed ==
    \/ session.kind = "null"
    \/ /\ session.kind = "session"
       /\ session.user.kind = "user"
       /\ session.user.email_confirmed_at \in {"undefined", "null"}

\* C1: while sessionLoading is true the guard yields Loading, whatever the
\* session and the configuration are, and the navigation stack (main area,
\* auth area) is not rendered.
C1_LoadingWins ==
    loading => (Loading /\ ~SetupRequired /\ ~TabsReachable /\ ~AuthReachable)

C1_Witness ==
    /\ loading
    /\ SessionConfirmed
    /\ ~ConfigPresent
    /\ view = [screen |-> "Loading"]

\* C2: when not loading and the service URL or the public API key is missing,
\* the guard yields SetupRequired for every session, and the navigation stack
\* is not rendered.
C2_SetupRequired ==
    (~loading /\ ~ConfigPresent)
        => (SetupRequired /\ ~Loading /\ ~TabsReachable /\ ~AuthReachable)

C2_Witness ==
    /\ ~loading
    /\ envUrl = "https://project.supabase.co"
    /\ envKey = "undefined"
    /\ SessionConfirmed
    /\ view = [screen |-> "SetupRequired"]

\* C3: when not loading and configuration is present, a null session and a
\* session whose user has email_confirmed_at null or absent yield AuthArea:
\* the auth stack is reachable and '(tabs)' is redirected away.
C3_UnconfirmedYieldsAuthArea ==
    (~loading /\ ConfigPresent /\ SessionUnconfirmed) => AuthArea

\* C4: when not loading, configuration is present and the session's user has
\* email_confirmed_at set, the guard yields MainArea: '(tabs)' is reachable
\* and the auth stack is redirected away.
C4_ConfirmedYieldsMainArea ==
    (~loading /\ ConfigPresent /\ SessionConfirmed)
        => (MainArea /\ TabsReachable /\ ~AuthReachable)

C4_Witness ==
    /\ ~loading
    /\ ConfigPresent
    /\ SessionConfirmed
    /\ view = [screen |-> "Stack", tabsRedirect |-> FALSE, authRedirect |-> TRUE]

\* C5: in every state exactly one of Loading, SetupRequired, AuthArea and
\* MainArea is active; a rendered stack never redirects both '(tabs)' and
\* 'auth' away and never leaves both reachable.
C5_ExactlyOneScreenState ==
    /\ Cardinality({k \in {"Loading", "SetupRequired", "AuthArea", "MainArea"} :
                      \/ k = "Loading" /\ Loading
                      \/ k = "SetupRequired" /\ SetupRequired
                      \/ k = "AuthArea" /\ AuthArea
                      \/ k = "MainArea" /\ MainArea}) = 1
    /\ view.screen = "Stack" => (view.tabsRedirect # view.authRedirect)

(***************************************************************************)
(* Verification screen properties (under SpecVerify)                       *)
(***************************************************************************)
\* C6: a submit with fewer than six code positions filled fails with the
\* 'incomplete code' error, invokes no verifyOTP, does not raise the busy
\* flag and leaves the digits unchanged; verifyOTP is only ever invoked with
\* all six positions filled.
C6_IncompleteCodeRejected ==
    [][ /\ (event'.kind \in {"verifyInvalid", "verifyCall"}
              /\ Filled(verificationCode) < 6)
            => /\ event'.kind = "verifyInvalid"
               /\ error' = IncompleteCodeMessage
               /\ verifyPending' = verifyPending
               /\ ~isLoading'
               /\ verificationCode' = verificationCode
               /\ route' = route
        /\ (verifyPending' > verifyPending) => Filled(verificationCode) = 6
      ]_vars

C6_Witness ==
    /\ event.kind = "verifyInvalid"
    /\ Filled(verificationCode) = 5
    /\ error = IncompleteCodeMessage
    /\ verifyPending = 0
    /\ ~isLoading

\* C7: a verifyOTP that settles without error raises the 'Email Verified'
\* alert, whose button navigates to the main area when a session was
\* returned and to sign-in when none was; a verifyOTP that settles with an
\* error raises no alert; the settling itself never changes the route.
C7_VerifiedNavigation ==
    [][ /\ (event'.kind = "verifySettled")
            => /\ route' = route
               /\ event'.result.kind = "ok" /\ event'.result.session
                    => alerts' = alerts \cup {"Continue"}
               /\ event'.result.kind = "ok" /\ ~event'.result.session
                    => alerts' = alerts \cup {"Sign In"}
               /\ event'.result.kind # "ok" => alerts' = alerts
        /\ (event'.kind = "alertPressed" /\ event'.alert = "Continue")
            => route' = "/(tabs)"
        /\ (event'.kind = "alertPressed" /\ event'.alert = "Sign In")
            => route' = "/auth/sign-in"
      ]_vars

C7_Witness ==
    /\ event.kind = "verifySettled"
    /\ event.result = [kind |-> "ok", session |-> FALSE]
    /\ alerts = {"Sign In"}
    /\ route = "/auth/verify"

\* C8: when verifyOTP returns an error to the mounted screen, lastError is the
\* returned error's message, the busy flag is cleared, the digits and the
\* cooldown are unchanged, and the Verify control is enabled again.
C8_VerifyFailureRetryable ==
    [][ (event'.kind = "verifySettled" /\ event'.result.kind = "error"
           /\ event'.mounted)
          => /\ error' = event'.result.error.message
             /\ ~isLoading'
             /\ verificationCode' = verificationCode
             /\ resendCooldown' = resendCooldown
             /\ Mounted'
             /\ ~VerifyDisabled'
      ]_vars

C8_Witness ==
    /\ event.kind = "verifySettled"
    /\ event.result.kind = "error"
    /\ event.mounted
    /\ error = "Token has expired or is invalid"
    /\ Filled(verificationCode) = 6
    /\ ~isLoading

\* C9: while resendCooldown > 0 on the mounted screen, an invocation of
\* handleResendCode (from the resend control or from the mount effect) makes
\* no resendVerificationEmail call and leaves the cooldown unchanged.
C9_NoResendDuringCooldown ==
    [][ (Mounted /\ resendCooldown > 0)
          => /\ event'.kind # "resendCall"
             /\ resendPending' <= resendPending
             /\ event'.kind = "resendSkipped" => resendCooldown' = resendCooldown
      ]_vars

\* C10: a successful resend sets the cooldown to exactly 60; from there the
\* cooldown only ever decreases, by exactly 1 per timer tick, until it is 0,
\* and never goes below 0; at 0 the resend guard lets a resend through.
C10_CooldownCountsDown ==
    [][ /\ (event'.kind = "resendSettled" /\ event'.result.kind = "ok"
              /\ event'.mounted)
            => resendCooldown' = RESEND_COOLDOWN
        /\ resendCooldown > 0
            => resendCooldown' \in {resendCooldown, resendCooldown - 1}
        /\ resendCooldown' >= 0
        /\ (resendCooldown' = 0 /\ ~isLoading') => ~ResendDisabled'
      ]_vars

\* C11: when resendVerificationEmail returns an error to the mounted screen,
\* lastError is the error's message, no cooldown runs (the cooldown is 0), the
\* busy flag is cleared and the resend control is enabled again at once.
C11_ResendFailureRetryable ==
    [][ (event'.kind = "resendSettled" /\ event'.result.kind = "error"
           /\ event'.mounted)
          => /\ error' = event'.result.error.message
             /\ resendCooldown' = 0
             /\ ~isLoading'
             /\ ~ResendDisabled'
      ]_vars

\* the step in which getSession hands its session to checkVerificationStatus
SessionCheckSettles ==
    /\ checkStatus = "pending"
    /\ checkStatus' = "done"
    /\ event'.kind # "checkFailed"

\* the session that getSession handed to the step an event reports
ReturnedSession(e) ==
    IF e.kind \in {"resendCall", "resendSkipped"} THEN e.from.session ELSE e.session

\* the session's user has a confirmation timestamp and the address mail
ConfirmedFor(s, mail) ==
    /\ s.kind = "session"
    /\ s.user.kind = "user"
    /\ s.user.email_confirmed_at \notin {"undefined", "null"}
    /\ s.user.email = mail

\* C12: with a non-empty target email, a session check that returns a session
\* confirmed for that very address navigates to the main area and issues no
\* resend; a session for another address, or one not confirmed, makes the
\* entry action navigate nowhere.
C12_AlreadyVerifiedNavigates ==
    [][ (SessionCheckSettles /\ email # <<>>)
          => IF ConfirmedFor(ReturnedSession(event'), email)
             THEN /\ event'.kind = "alreadyVerified"
                  /\ route' = "/(tabs)"
                  /\ resendPending' = resendPending
             ELSE route' = route
      ]_vars

C12_Witness ==
    /\ event.kind = "alreadyVerified"
    /\ email # <<>>
    /\ ConfirmedFor(event.session, email)
    /\ route = "/(tabs)"
    /\ resendPending = 0

\* C13: when the session check completes without finding the address
\* confirmed, the entry action issues exactly one resend if the email is
\* non-empty and no cooldown is active, never more than one, none when the
\* email is empty, and none when a cooldown is active at that moment.
C13_AutoResendOncePerActivation ==
    [][ (SessionCheckSettles /\ ~ConfirmedFor(ReturnedSession(event'), email))
          => /\ resendPending' <= resendPending + 1
             /\ (email # <<>> /\ resendCooldown = 0)
                  => (event'.kind = "resendCall" /\ resendPending' = resendPending + 1)
             /\ email = <<>> => resendPending' = resendPending
             /\ resendCooldown > 0 => resendPending' = resendPending
      ]_vars

\* C14: resendVerificationEmail is never invoked while a verifyOTP call is
\* pending, whatever the interleaving of user actions, the mount-time session
\* check and call completions.
C14_NoResendWhileVerifying ==
    [][ resendPending' > resendPending => verifyPending = 0 ]_vars

\* C15: on the mounted screen at most one verifyOTP and at most one
\* resendVerificationEmail call are in flight, and while any call is in
\* flight the busy flag is up, so both triggering controls are disabled.
C15_ControlsDisabledWhileCalling ==
    Mounted =>
        /\ verifyPending <= 1
        /\ resendPending <= 1
        /\ (verifyPending + resendPending > 0) => (VerifyDisabled /\ ResendDisabled)

(***************************************************************************)
(* Settings screen properties (under SpecSettings)                         *)
(***************************************************************************)
\* the order in which confirmDeleteAccount is to make its calls
DeleteOrder == <<"getUser", "deleteProfile", "deleteUser", "signOut">>

\* the call returned what the run needs to go on
Succeeded(r) == r.kind \in {"ok", "user"}

\* an 'Error' alert is on display
ErrorAlertShown(as) == \E a \in as : a.title = "Error"

\* C16: when the current-user lookup returns no user, the run ends with an
\* error alert that reports 'User not authenticated', having made no call but
\* the lookup, without navigation, and with the deleting flag cleared.
C16_NoUserAborts ==
    [][ (event'.kind = "deleteFinished" /\ event'.results[1].kind = "null")
          => /\ event'.calls = <<"getUser">>
             /\ route' = route
             /\ [title |-> "Error",
                 message |-> <<DeleteFailedMessage, "\n\nError: ", "User not authenticated">>]
                    \in alerts'
             /\ event'.mounted => ~isDeletingAccount'
      ]_vars

C16_Witness ==
    /\ event.kind = "deleteFinished"
    /\ event.results = <<[kind |-> "null"]>>
    /\ event.mounted
    /\ route = "/settings"
    /\ ErrorAlertShown(alerts)
    /\ ~isDeletingAccount

\* C17: a finished run has made its calls in the order fetch user, delete
\* profile, delete auth identity, sign out, each only after every earlier one
\* succeeded; it navigates to sign-in only if all four succeeded; a failure of
\* any call, the final sign-out's returned error included, leaves the route
\* alone and shows an error alert.
C17_DeleteStepsAbortOnFailure ==
    [][ (event'.kind = "deleteFinished")
          => LET c == event'.calls
                 rs == event'.results
             IN /\ Len(rs) = Len(c)
                /\ c = SubSeq(DeleteOrder, 1, Len(c))
                /\ \A i \in 1..(Len(c) - 1) : Succeeded(rs[i])
                /\ route' # route
                     => /\ route' = "/auth/sign-in"
                        /\ Len(c) = 4
                        /\ \A i \in 1..4 : Succeeded(rs[i])
                /\ (\E i \in 1..Len(rs) : ~Succeeded(rs[i]))
                     => (route' = route /\ ErrorAlertShown(alerts'))
      ]_vars

\* C18: a delete run starts only by the 'Delete Account' button of an open
\* confirmation dialog; opening the dialog, and answering it with 'Cancel',
\* starts nothing and leaves the busy flags, the session and the route as
\* they were.
C18_DeleteNeedsConfirmation ==
    [][ /\ (deletions' # deletions /\ Len(deletions') > Len(deletions))
            => /\ deleteDialogs > 0
               /\ deleteDialogs' = deleteDialogs - 1
               /\ event' = [kind |-> "dialogPressed", choice |-> "Delete Account"]
        /\ (event'.kind = "deleteDialogOpened"
              \/ (event'.kind = "dialogPressed" /\ event'.choice = "Cancel"))
            => /\ deletions' = deletions
               /\ signOutPending' = signOutPending
               /\ isSigningOut' = isSigningOut
               /\ isDeletingAccount' = isDeletingAccount
               /\ session' = session
               /\ route' = route
               /\ alerts' = alerts
      ]_vars

C18_Witness ==
    /\ event = [kind |-> "dialogPressed", choice |-> "Cancel"]
    /\ deleteDialogs = 0
    /\ deletions = <<>>
    /\ ~isDeletingAccount
    /\ route = "/settings"

\* C19: at most one sign-out of handleSignOut and at most one delete-account
\* run are in flight at any time.
C19_OneInstanceInFlight ==
    /\ signOutPending <= 1
    /\ Len(deletions) <= 1

\* C20: handleSignOut calls the external sign-out; when it succeeds the
\* screen navigates to sign-in and shows no alert; when it returns or throws
\* an error an alert with the error's message is shown and the route stays;
\* in both cases the signing-out flag is cleared.
C20_SignOutOutcome ==
    [][ /\ event'.kind = "signOutCall"
            => (signOutPending' = signOutPending + 1 /\ isSigningOut')
        /\ event'.kind = "signOutSettled"
            => /\ event'.result.kind = "ok"
                    => (route' = "/auth/sign-in" /\ alerts' = alerts)
               /\ event'.result.kind # "ok"
                    => /\ route' = route
                       /\ [title |-> "Error",
                           message |-> <<event'.result.error.message>>] \in alerts'
               /\ event'.mounted => ~isSigningOut'
      ]_vars

C20_Witness ==
    /\ event.kind = "signOutSettled"
    /\ event.result.kind = "error"
    /\ event.mounted
    /\ alerts = {[title |-> "Error", message |-> <<"Network request failed">>]}
    /\ route = "/settings"
    /\ ~isSigningOut

(***************************************************************************)
(* Sign-in screen properties (under SpecSignIn)                            *)
(***************************************************************************)
\* the step is a press of 'Sign In'
SignInPressed == event'.kind \in {"signInInvalid", "signInCall"}

\* the text passes the three checks of the email: not blank, well-formed,
\* of the allowed domain
PassesEmailChecks(text) ==
    /\ trim(text) # <<>>
    /\ emailRegexTest(text)
    /\ validateEmailDomain(text)

\* the inline message a press of 'Sign In' is to show for the inputs, or
\* "null" when the inputs are valid
ExpectedSignInMessage(text, pass) ==
    IF trim(text) = <<>> THEN "Email is required"
    ELSE IF ~emailRegexTest(text) THEN "Invalid email format"
    ELSE IF ~validateEmailDomain(text) THEN "Only @mail.utdt.edu email addresses are allowed"
    ELSE IF pass = <<>> THEN "Password is required"
    ELSE "null"

\* C21: a press of 'Sign In' with an email that is empty, malformed or not of
\* the allowed domain, or with an empty password, is blocked: the inline
\* error shows the message of the first failing check, no signIn call is
\* made and the loading flag is not raised; a signIn call is made only with
\* the screen's email, which passes the three checks, and a non-empty password.
C21_SignInValidation ==
    [][ /\ (SignInPressed /\ (~PassesEmailChecks(signInEmail) \/ password = <<>>))
            => /\ event'.kind = "signInInvalid"
               /\ signInError' = ExpectedSignInMessage(signInEmail, password)
               /\ signInError' # "null"
               /\ signInCalls' = signInCalls
               /\ ~signInLoading'
        /\ event'.kind = "signInCall"
            => /\ event'.email = signInEmail
               /\ PassesEmailChecks(event'.email)
               /\ event'.password # <<>>
               /\ signInLoading'
        /\ (\E i \in 1..Len(signInCalls') :
               /\ signInCalls'[i].op = "signIn"
               /\ (i > Len(signInCalls) \/ signInCalls[i] # signInCalls'[i]))
            => \/ event'.kind = "signInCall"
               \/ Len(signInCalls') < Len(signInCalls)
      ]_vars

C21_Witness ==
    /\ event = [kind |-> "signInInvalid",
                message |-> "Only @mail.utdt.edu email addresses are allowed"]
    /\ signInEmail = <<"s", "@", "g", ".", "c">>
    /\ password # <<>>
    /\ signInError = "Only @mail.utdt.edu email addresses are allowed"
    /\ signInCalls = <<>>
    /\ ~signInLoading

(***************************************************************************)
(* Properties of all three screens                                         *)
(***************************************************************************)
\* the step starts and ends with the route away from r: the screen of route
\* r is unmounted throughout
AwayFrom(r) == route # r /\ route' # r

C23_LoadingCleanup ==
    [][ /\ (event'.kind \in {"signInSettled", "signInResendSettled"} /\ event'.mounted)
            => ~signInLoading'
        /\ (SignInMounted' /\ signInLoading') => signInCalls' # <<>>
        /\ (event'.kind \in {"verifySettled", "resendSettled"} /\ event'.mounted)
            => ~isLoading'
        /\ (Mounted' /\ isLoading') => verifyPending' + resendPending' > 0
        /\ (event'.kind \in {"signOutSettled", "deleteFinished"} /\ event'.mounted)
            => (event'.kind = "signOutSettled" => ~isSigningOut')
               /\ (event'.kind = "deleteFinished" => ~isDeletingAccount')
        /\ (SettingsMounted' /\ isSigningOut') => signOutPending' > 0
        /\ (SettingsMounted' /\ isDeletingAccount') => deletions' # <<>>
      ]_vars

C23_Witness ==
    /\ event.kind = "signInSettled"
    /\ event.result.kind = "throw"
    /\ event.mounted
    /\ SignInMounted
    /\ ~signInLoading
    /\ signInCalls = <<>>
    /\ signInError = "Invalid login credentials"

(***************************************************************************)
(* Code entry properties (under SpecDigits)                                *)
(***************************************************************************)
\* the last two steps were changes of the same input: the entry of a digit,
\* then its clearing
EnteredThenCleared ==
    /\ event.kind = "codeChange"
    /\ event.text = <<>>
    /\ event.previous # {}
    /\ event.before[event.index] # <<>>

\* the code before the entry, when the last two steps were entry and clearing
PreEntry == CHOOSE code \in event.previous : TRUE

\* both steps left the inputs other than the changed one as they were
OthersUnchanged ==
    \A j \in (0..5) \ {event.index} :
        /\ event.before[j] = PreEntry[j]
        /\ verificationCode[j] = event.before[j]

\* C24, as stated: for every index and every code, after the entry of a digit
\* at the index and the clearing of the index the code equals its value
\* before the entry, and neither step changed another index.
C24_EnterClearRestores ==
    EnteredThenCleared => (verificationCode = PreEntry /\ OthersUnchanged)

\* C24, amended: for every index and every code whose position at the index
\* is empty, after the entry of a digit at the index and the clearing of the
\* index the code equals its value before the entry; whatever the position
\* held, neither step changed another index, and the position is empty after
\* the clearing.
C24_EnterClearRestoresEmpty ==
    EnteredThenCleared
        => /\ PreEntry[event.index] = <<>> => verificationCode = PreEntry
           /\ OthersUnchanged
           /\ verificationCode[event.index] = <<>>

C24_Witness ==
    /\ EnteredThenCleared
    /\ event.index = 2
    /\ PreEntry = [i \in 0..5 |-> IF i = 2 THEN <<>> ELSE IF i < 2 THEN <<"3">> ELSE <<"7">>]
    /\ event.before = [PreEntry EXCEPT ![2] = <<"7">>]
    /\ verificationCode = PreEntry

\* the code has the positions 0..5, each empty or one decimal digit
CodeWellFormed(code) ==
    /\ DOMAIN code = 0..5
    /\ \A i \in 0..5 :
          \/ code[i] = <<>>
          \/ Len(code[i]) = 1 /\ code[i][1] \in {"0", "1", "2", "3", "4", "5", "6", "7", "8", "9"}

\* C25: whatever raw texts the inputs are handed (digits, other characters,
\* several characters), the code keeps six positions, each empty or one
\* decimal digit; and every verifyOTP call is made with six decimal digits,
\* the k-th being the digit of position k.
C25_CodeDigits ==
    [][ /\ CodeWellFormed(verificationCode')
        /\ event'.kind = "verifyCall"
            => /\ Len(event'.code) = 6
               /\ \A k \in 1..6 :
                     /\ event'.code[k] \in {"0", "1", "2", "3", "4", "5", "6", "7", "8", "9"}
                     /\ verificationCode[k - 1] = <<event'.code[k]>>
      ]_vars

C25_Witness ==
    /\ event.kind = "verifyCall"
    /\ event.code = <<"3", "7", "7", "3", "3", "7">>
    /\ verifyPending = 1
    /\ isLoading

(***************************************************************************)
(* Sign-in resend (under SpecSignIn)                                       *)
(***************************************************************************)
\* the sequence calls' holds a call of op that calls does not
NewCall(op) ==
    \E i \in 1..Len(signInCalls') :
        /\ signInCalls'[i].op = op
        /\ Len(signInCalls') > Len(signInCalls)

\* C26 (under SpecSignIn): resendVerificationEmail is called from the sign-in
\* screen only when the latest sign-in attempt returned an 'Email not
\* confirmed' error and the email has not been edited since, with that
\* attempt's email, which is non-empty and passes the sign-in checks; the
\* route changes to the verify screen only when that resend returns without
\* error, and the verify screen then gets the email the resend was called with.
C26_SignInResendGating ==
    [][ /\ event'.kind = "signInResendCall"
            => /\ lastAttempt.kind = "settled"
               /\ lastAttempt.result.kind = "error"
               /\ lastAttempt.result.error.message = "Email not confirmed"
               /\ event'.email = lastAttempt.email
               /\ event'.email = signInEmail
               /\ event'.email # <<>>
               /\ PassesEmailChecks(event'.email)
        /\ NewCall("resend") => event'.kind = "signInResendCall"
        /\ (route' = "/auth/verify" /\ route # "/auth/verify")
            => /\ event'.kind = "signInResendSettled"
               /\ event'.result.kind = "ok"
               /\ \E i \in 1..Len(signInCalls) :
                     /\ signInCalls[i] = [op |-> "resend", email |-> event'.email]
                     /\ signInCalls' = RemoveAt(signInCalls, i)
               /\ email' = event'.email
        /\ (event'.kind = "signInResendSettled" /\ event'.result.kind # "ok")
            => route' = route
      ]_vars

C26_Witness ==
    /\ event.kind = "signInResendSettled"
    /\ event.result.kind = "ok"
    /\ event.email = <<"b">> \o AllowedDomain
    /\ lastAttempt.kind = "settled"
    /\ lastAttempt.email = event.email
    /\ route = "/auth/verify"
    /\ email = event.email
    /\ checkStatus = "pending"
    /\ ~signInLoading

====
